---- MODULE Spec2Model ----
(***************************************************************************)
(* Record Browser of App-precios-combustibles-PE (src/static/script.js).   *)
(*                                                                         *)
(* The page keeps currentData / currentPage / totalPages, renders one page *)
(* of the table and a pagination control, repopulates four <select>        *)
(* elements after each successful fetch, and issues fetches that resolve   *)
(* asynchronously and in any order.                                        *)
(*                                                                         *)
(* Not modelled: response.json() rejecting on a malformed body, and the    *)
(* two server adapters (they hold no state).                               *)
(***************************************************************************)
EXTENDS Integers, Sequences, FiniteSets, TLC

VARIABLES
    dom,             \* the expected DOM elements that exist in the document
    loading,         \* TRUE iff the overlay does not carry class d-none
    currentData,     \* let currentData
    currentPage,     \* let currentPage
    totalPages,      \* let totalPages
    tableRows,       \* the rows of <tbody>
    paginationInfo,  \* text of .pagination-info, as its three numbers
    paginationLinks, \* the <li><a class="page-link"> items of .pagination
    selOptions,      \* per selector: its option values, in document order
    selected,        \* per selector: index of the selected option, 0 if none
    inflight,        \* fetchData calls suspended at an await
    nextId,          \* issue number of the next fetchData call
    alerts,          \* number of alert() dialogs shown so far
    lastResolved,    \* the fetchData call that ran its finally block last,
                     \* with the error console.error logged for it, if any
    served           \* the last response a server adapter returned

vars == <<dom, loading, currentData, currentPage, totalPages, tableRows,
          paginationInfo, paginationLinks, selOptions, selected, inflight,
          nextId, alerts, lastResolved, served>>

-----------------------------------------------------------------------------
(* Bounds *)

MaxFetches == 3

-----------------------------------------------------------------------------
(* Program constants *)

itemsPerPage == 10

RegionSelectors == <<"departamento", "provincia", "distrito">>

Selectors == {"departamento", "provincia", "distrito", "tipoEstablecimiento"}

AllElements == Selectors \cup {"tbody", "pagination", "paginationInfo"}

\* the record field each selector is populated from
FieldOf(s) ==
    CASE s = "departamento" -> "DEPARTAMENTO"
      [] s = "provincia" -> "PROVINCIA"
      [] s = "distrito" -> "DISTRITO"
      [] s = "tipoEstablecimiento" -> "TIPO_ESTABLECIMIENTO"

-----------------------------------------------------------------------------
(* Strings and their ordering.  Array.prototype.sort() without a comparator *)
(* orders strings by their UTF-16 code units.                               *)

CodeUnits(s) ==
    CASE s = "" -> <<>>
      [] s = "LIMA" -> <<76, 73, 77, 65>>
      [] s = "CUSCO" -> <<67, 85, 83, 67, 79>>
      [] s = "MIRAFLORES" -> <<77, 73, 82, 65, 70, 76, 79, 82, 69, 83>>
      [] s = "GRIFO" -> <<71, 82, 73, 70, 79>>
      [] s = "FARMACIA" -> <<70, 65, 82, 77, 65, 67, 73, 65>>

RECURSIVE SeqLess(_, _)
SeqLess(a, b) ==
    IF b = <<>> THEN FALSE
    ELSE IF a = <<>> THEN TRUE
    ELSE IF Head(a) # Head(b) THEN Head(a) < Head(b)
    ELSE SeqLess(Tail(a), Tail(b))

StrLess(x, y) == SeqLess(CodeUnits(x), CodeUnits(y))

Min(a, b) == IF a < b THEN a ELSE b

\* Math.ceil(a / b) for a >= 0, b > 0
Ceil(a, b) == (a + b - 1) \div b

Max(a, b) == IF a > b THEN a ELSE b

\* Array.prototype.slice(start, end): a negative index counts from the end
Slice(seq, start, end) ==
    LET len == Len(seq)
        from == IF start < 0 THEN Max(len + start, 0) ELSE Min(start, len)
        to == IF end < 0 THEN Max(len + end, 0) ELSE Min(end, len)
    IN  IF from >= to THEN <<>> ELSE SubSeq(seq, from + 1, to)

-----------------------------------------------------------------------------
(* Records and the bodies the endpoint may answer with.                     *)

Rec(i, dep, prov, dist, tipo) ==
    [id |-> i, DEPARTAMENTO |-> dep, PROVINCIA |-> prov, DISTRITO |-> dist,
     TIPO_ESTABLECIMIENTO |-> tipo]

Bodies == {"empty", "lima15", "farm25", "big85"}

\* response.json(): the array a body parses to
Json(body) ==
    CASE body = "empty" -> <<>>
      [] body = "lima15" ->
           [i \in 1..15 |-> Rec(i, "LIMA", "LIMA", "MIRAFLORES", "GRIFO")]
      [] body = "farm25" ->
           [i \in 1..25 |->
               Rec(i,
                   IF i = 2 THEN "CUSCO" ELSE IF i = 4 THEN "" ELSE "LIMA",
                   "", "",
                   IF i \in {3, 11, 12, 25} THEN "FARMACIA"
                   ELSE IF i = 7 THEN "" ELSE "GRIFO")]
      [] body = "big85" ->
           [i \in 1..85 |-> Rec(i, "CUSCO", "", "", "GRIFO")]

-----------------------------------------------------------------------------
(* renderTable *)

PageData(data, page) ==
    LET start == (page - 1) * itemsPerPage
        end == start + itemsPerPage
    IN  Slice(data, start, end)

RenderTable(d, data, page, rows) ==
    IF "tbody" \notin d THEN rows ELSE PageData(data, page)

-----------------------------------------------------------------------------
(* updatePagination *)

PrevLink(page) ==
    [kind |-> "Anterior", hasPage |-> TRUE, page |-> page - 1,
     cls |-> IF page = 1 THEN "disabled" ELSE ""]

NextLink(page, total) ==
    [kind |-> "Siguiente", hasPage |-> TRUE, page |-> page + 1,
     cls |-> IF page = total THEN "disabled" ELSE ""]

NumberLink(i, page) ==
    [kind |-> "number", hasPage |-> TRUE, page |-> i,
     cls |-> IF i = page THEN "active" ELSE ""]

EllipsisLink ==
    [kind |-> "...", hasPage |-> FALSE, page |-> 0, cls |-> "disabled"]

\* InWindow without its test for the last page
InWindowNoLast(i, page, total) ==
    i = 1 \/ (i >= page - 2 /\ i <= page + 2)

\* the condition of the first branch of the loop body
InWindow(i, page, total) ==
    i = 1 \/ i = total \/ (i >= page - 2 /\ i <= page + 2)

\* WindowLinks with an ellipsis for every page outside the window
RECURSIVE WindowLinksEveryGap(_, _, _)
WindowLinksEveryGap(i, page, total) ==
    IF i > total THEN <<>>
    ELSE (IF InWindow(i, page, total) THEN <<NumberLink(i, page)>>
          ELSE <<EllipsisLink>>)
         \o WindowLinksEveryGap(i + 1, page, total)

\* the for loop, from i up to total
RECURSIVE WindowLinks(_, _, _)
WindowLinks(i, page, total) ==
    IF i > total THEN <<>>
    ELSE (IF InWindow(i, page, total) THEN <<NumberLink(i, page)>>
          ELSE IF i = page - 3 \/ i = page + 3 THEN <<EllipsisLink>>
          ELSE <<>>)
         \o WindowLinks(i + 1, page, total)

PaginationHTML(page, total) ==
    <<PrevLink(page)>> \o WindowLinks(1, page, total) \o <<NextLink(page, total)>>

InfoText(data, page) ==
    [startItem |-> (page - 1) * itemsPerPage + 1,
     endItem |-> Min(page * itemsPerPage, Len(data)),
     total |-> Len(data)]

\* the early return of updatePagination
PaginationSkipped(d, data) == "pagination" \notin d \/ Len(data) = 0

\* paginationInfo is null and its textContent is assigned: TypeError
PaginationThrows(d, data) ==
    ~PaginationSkipped(d, data) /\ "paginationInfo" \notin d

\* the whole of updatePagination, as the new values of what it writes
UpdatePagination(d, data, page, oldTotal, oldInfo, oldLinks) ==
    IF PaginationSkipped(d, data)
    THEN [totalPages |-> oldTotal, info |-> oldInfo, links |-> oldLinks]
    ELSE LET total == Ceil(Len(data), itemsPerPage) IN
         IF PaginationThrows(d, data)
         THEN [totalPages |-> total, info |-> oldInfo, links |-> oldLinks]
         ELSE [totalPages |-> total, info |-> InfoText(data, page),
               links |-> PaginationHTML(page, total)]

-----------------------------------------------------------------------------
(* updateFilterOptions / updateSelect *)

FieldValues(data, field) == [i \in 1..Len(data) |-> data[i][field]]

\* .filter(Boolean) on strings
FilterBoolean(seq) == SelectSeq(seq, LAMBDA v : v # "")

\* [...new Set(seq)]: the first occurrence of each value, in insertion order
SetSpread(seq) ==
    LET first == {i \in 1..Len(seq) : \A j \in 1..(i - 1) : seq[j] # seq[i]}
        nth(k) == CHOOSE i \in first :
                     Cardinality({j \in first : j < i}) = k - 1
    IN  [k \in 1..Cardinality(first) |-> seq[nth(k)]]

RECURSIVE Insert(_, _)
Insert(sorted, v) ==
    IF sorted = <<>> THEN <<v>>
    ELSE IF StrLess(v, Head(sorted)) THEN <<v>> \o sorted
    ELSE <<Head(sorted)>> \o Insert(Tail(sorted), v)

\* the options left in insertion order
SortNone(seq) == seq

\* options.sort()
RECURSIVE Sort(_)
Sort(seq) ==
    IF seq = <<>> THEN <<>>
    ELSE Insert(Sort(SubSeq(seq, 1, Len(seq) - 1)), seq[Len(seq)])

DistinctValues(data, field) ==
    SetSpread(FilterBoolean(FieldValues(data, field)))

\* select.value
ValueOf(opts, sel) == IF sel = 0 THEN "" ELSE opts[sel]

\* IndexOfValue with the value not restored: the first option stays selected
IndexOfValueFirst(opts, v) == 1

\* select.value = v: the first option with that value, none if there is none
IndexOfValue(opts, v) ==
    IF \E i \in 1..Len(opts) : opts[i] = v
    THEN CHOOSE i \in 1..Len(opts) :
            opts[i] = v /\ \A j \in 1..(i - 1) : opts[j] # v
    ELSE 0

\* the option list updateSelect builds
SelectOptions(options) == <<"">> \o Sort(options)

UpdateFilterOptions(d, data, opts, sel) ==
    [options |->
        [s \in Selectors |->
            IF s \notin d THEN opts[s]
            ELSE SelectOptions(DistinctValues(data, FieldOf(s)))],
     selected |->
        [s \in Selectors |->
            IF s \notin d THEN sel[s]
            ELSE IndexOfValue(SelectOptions(DistinctValues(data, FieldOf(s))),
                              ValueOf(opts[s], sel[s]))]]

-----------------------------------------------------------------------------
(* fetchData, up to its first await *)

\* Params appending every filter, empty or not
ParamsUnfiltered(filters) ==
    << <<"departamento", filters.departamento>>,
       <<"provincia", filters.provincia>>,
       <<"distrito", filters.distrito>> >>

\* the URLSearchParams fetchData builds from its filters argument
Params(filters) ==
    (IF filters.departamento # ""
     THEN << <<"departamento", filters.departamento>> >> ELSE <<>>)
    \o (IF filters.provincia # ""
        THEN << <<"provincia", filters.provincia>> >> ELSE <<>>)
    \o (IF filters.distrito # ""
        THEN << <<"distrito", filters.distrito>> >> ELSE <<>>)

NoFilters == [departamento |-> "", provincia |-> "", distrito |-> ""]

Request(id, filters) ==
    [id |-> id, params |-> Params(filters), stage |-> "fetch"]

\* showLoading(), then the request is sent and the call suspends
FetchData(filters) ==
    /\ loading' = TRUE
    /\ inflight' = inflight \cup {Request(nextId, filters)}
    /\ nextId' = nextId + 1

NoneResolved == [id |-> 0, outcome |-> "none", body |-> ""]

NoneServed == [adapter |-> "none", method |-> "", path |-> "",
               response |-> [status |-> 0, headers |-> {}]]

\* The state of the script's variables and of the page when the
\* DOMContentLoaded handler returns.  The page's HTML is not among the
\* sources: each selector is taken to hold only its 'Todos' option, the table
\* body and the pagination container to be empty and the info text to be
\* blank.
InitPage ==
    /\ currentData = <<>>
    /\ currentPage = 1
    /\ totalPages = 0
    /\ tableRows = <<>>
    /\ paginationInfo = [startItem |-> 0, endItem |-> 0, total |-> 0]
    /\ paginationLinks = <<>>
    /\ selOptions = [s \in Selectors |-> <<"">>]
    /\ selected = [s \in Selectors |-> 1]
    /\ alerts = 0
    /\ lastResolved = NoneResolved
    /\ served = NoneServed
    \* the call fetchData() that ends the DOMContentLoaded handler
    /\ loading = TRUE
    /\ inflight = {Request(1, NoFilters)}
    /\ nextId = 2

\* the page with every expected element
Init ==
    /\ dom = AllElements
    /\ InitPage

\* the documents considered when elements are absent: at most one is
DomChoices == {AllElements} \cup {AllElements \ {e} : e \in AllElements}

\* the page in a document that may lack one of the expected elements
InitDom ==
    /\ dom \in DomChoices
    /\ InitPage

-----------------------------------------------------------------------------
(* The change listeners of the three region selectors *)

\* the filters object the listener builds from the three selectors
RegionFilters(opts, sel) ==
    [departamento |-> ValueOf(opts["departamento"], sel["departamento"]),
     provincia |-> ValueOf(opts["provincia"], sel["provincia"]),
     distrito |-> ValueOf(opts["distrito"], sel["distrito"])]

\* reading .value of a selector that does not exist throws in the listener
RegionReadThrows(d) ==
    \E k \in 1..Len(RegionSelectors) : RegionSelectors[k] \notin d

\* the user picks option i of region selector s; its change listener runs
RegionChange(s, i) ==
    /\ s \in dom
    /\ nextId <= MaxFetches
    /\ i \in 1..Len(selOptions[s])
    /\ i # selected[s]
    /\ selected' = [selected EXCEPT ![s] = i]
    /\ IF RegionReadThrows(dom)
       THEN UNCHANGED <<loading, inflight, nextId>>
       ELSE FetchData(RegionFilters(selOptions, selected'))
    /\ UNCHANGED <<dom, served, currentData, currentPage, totalPages, tableRows,
                   paginationInfo, paginationLinks, selOptions, alerts,
                   lastResolved>>

DepartamentoChange == \E i \in 1..Len(selOptions["departamento"]) :
                         RegionChange("departamento", i)

ProvinciaChange == \E i \in 1..Len(selOptions["provincia"]) :
                      RegionChange("provincia", i)

DistritoChange == \E i \in 1..Len(selOptions["distrito"]) :
                     RegionChange("distrito", i)

-----------------------------------------------------------------------------
(* The change listener of the establishment-type selector *)

\* currentData.filter(item => item.TIPO_ESTABLECIMIENTO === tipo)
FilterByTipo(data, tipo) ==
    SelectSeq(data, LAMBDA item : item.TIPO_ESTABLECIMIENTO = tipo)

\* TipoChange reloading the records from the endpoint as well
TipoChangeRefetches(i) ==
    /\ "tipoEstablecimiento" \in dom
    /\ nextId <= MaxFetches
    /\ i \in 1..Len(selOptions["tipoEstablecimiento"])
    /\ i # selected["tipoEstablecimiento"]
    /\ selected' = [selected EXCEPT !["tipoEstablecimiento"] = i]
    /\ FetchData(RegionFilters(selOptions, selected'))
    /\ UNCHANGED <<dom, served, currentData, currentPage, totalPages, tableRows,
                   paginationInfo, paginationLinks, selOptions, alerts,
                   lastResolved>>

\* TipoChange keeping the fetched set aside and filtering it afresh, so that
\* 'Todos' or another type brings back the records narrowed away
TipoChangeFromFetched(i) ==
    /\ "tipoEstablecimiento" \in dom
    /\ i \in 1..Len(selOptions["tipoEstablecimiento"])
    /\ i # selected["tipoEstablecimiento"]
    /\ selected' = [selected EXCEPT !["tipoEstablecimiento"] = i]
    /\ LET tipo == selOptions["tipoEstablecimiento"][i]
           fetched == IF lastResolved.outcome = "ok"
                      THEN Json(lastResolved.body) ELSE currentData
           data == IF tipo # "" THEN FilterByTipo(fetched, tipo) ELSE fetched
           up == UpdatePagination(dom, data, 1, totalPages, paginationInfo,
                                  paginationLinks)
       IN  /\ currentData' = data
           /\ currentPage' = 1
           /\ tableRows' = RenderTable(dom, data, 1, tableRows)
           /\ totalPages' = up.totalPages
           /\ paginationInfo' = up.info
           /\ paginationLinks' = up.links
    /\ UNCHANGED <<dom, served, loading, selOptions, inflight, nextId, alerts,
                   lastResolved>>

TipoChange(i) ==
    /\ "tipoEstablecimiento" \in dom
    /\ i \in 1..Len(selOptions["tipoEstablecimiento"])
    /\ i # selected["tipoEstablecimiento"]
    /\ selected' = [selected EXCEPT !["tipoEstablecimiento"] = i]
    /\ LET tipo == selOptions["tipoEstablecimiento"][i]
           data == IF tipo # "" THEN FilterByTipo(currentData, tipo)
                   ELSE currentData
           up == UpdatePagination(dom, data, 1, totalPages, paginationInfo,
                                  paginationLinks)
       IN  /\ currentData' = data
           /\ currentPage' = 1
           /\ tableRows' = RenderTable(dom, data, 1, tableRows)
           /\ totalPages' = up.totalPages
           /\ paginationInfo' = up.info
           /\ paginationLinks' = up.links
    /\ UNCHANGED <<dom, served, loading, selOptions, inflight, nextId, alerts,
                   lastResolved>>

TipoEstablecimientoChange ==
    \E i \in 1..Len(selOptions["tipoEstablecimiento"]) : TipoChange(i)

-----------------------------------------------------------------------------
(* The click listener of a page link *)

\* PageAccepted without its lower bound
PageAcceptedNoLowerBound(link, total) ==
    link.hasPage /\ link.page <= total

\* !isNaN(newPage) && newPage > 0 && newPage <= totalPages
PageAccepted(link, total) ==
    link.hasPage /\ link.page > 0 /\ link.page <= total

PageClick(k) ==
    /\ k \in 1..Len(paginationLinks)
    /\ LET link == paginationLinks[k] IN
       IF PageAccepted(link, totalPages)
       THEN LET up == UpdatePagination(dom, currentData, link.page, totalPages,
                                       paginationInfo, paginationLinks)
            IN  /\ currentPage' = link.page
                /\ tableRows' = RenderTable(dom, currentData, link.page,
                                            tableRows)
                /\ totalPages' = up.totalPages
                /\ paginationInfo' = up.info
                /\ paginationLinks' = up.links
       ELSE UNCHANGED <<currentPage, tableRows, totalPages, paginationInfo,
                        paginationLinks>>
    /\ UNCHANGED <<dom, served, loading, currentData, selOptions, selected, inflight,
                   nextId, alerts, lastResolved>>

PageLinkClick == \E k \in 1..Len(paginationLinks) : PageClick(k)

-----------------------------------------------------------------------------
(* fetchData, from its first await on *)

\* FetchFails emptying the table as well
FetchFailsClearsTable(f, error) ==
    /\ alerts' = alerts + 1
    /\ loading' = FALSE
    /\ inflight' = inflight \ {f}
    /\ lastResolved' = [id |-> f.id, outcome |-> error, body |-> ""]
    /\ tableRows' = <<>>
    /\ UNCHANGED <<dom, served, currentData, currentPage, totalPages,
                   paginationInfo, paginationLinks, selOptions, selected,
                   nextId>>

\* FetchFails with hideLoading() in the try block instead of finally
FetchFailsKeepsLoading(f, error) ==
    /\ alerts' = alerts + 1
    /\ inflight' = inflight \ {f}
    /\ lastResolved' = [id |-> f.id, outcome |-> error, body |-> ""]
    /\ UNCHANGED <<dom, served, loading, currentData, currentPage, totalPages,
                   tableRows, paginationInfo, paginationLinks, selOptions,
                   selected, nextId>>

\* catch and finally: one alert, the overlay is hidden, the call is over
FetchFails(f, error) ==
    /\ alerts' = alerts + 1
    /\ loading' = FALSE
    /\ inflight' = inflight \ {f}
    /\ lastResolved' = [id |-> f.id, outcome |-> error, body |-> ""]
    /\ UNCHANGED <<dom, served, currentData, currentPage, totalPages, tableRows,
                   paginationInfo, paginationLinks, selOptions, selected,
                   nextId>>

\* fetch() rejects
NetworkError ==
    \E f \in inflight : f.stage = "fetch" /\ FetchFails(f, "TypeError")

\* fetch() resolves with response.ok false
HttpError ==
    \E f \in inflight : f.stage = "fetch" /\ FetchFails(f, "Error")

\* fetch() resolves with response.ok true; the call suspends at response.json()
ResponseOk ==
    \E f \in inflight :
        /\ f.stage = "fetch"
        /\ inflight' = (inflight \ {f}) \cup {[f EXCEPT !.stage = "json"]}
        /\ UNCHANGED <<dom, served, loading, currentData, currentPage, totalPages,
                       tableRows, paginationInfo, paginationLinks, selOptions,
                       selected, nextId, alerts, lastResolved>>

\* response.json() resolves with the parsed body: the rest of the try block,
\* then finally
FetchSucceeds(f, body) ==
    LET data == Json(body)
        up == UpdatePagination(dom, data, 1, totalPages, paginationInfo,
                               paginationLinks)
        threw == PaginationThrows(dom, data)
        sel == UpdateFilterOptions(dom, data, selOptions, selected)
    IN  /\ currentData' = data
        /\ currentPage' = 1
        /\ tableRows' = RenderTable(dom, data, 1, tableRows)
        /\ totalPages' = up.totalPages
        /\ paginationInfo' = up.info
        /\ paginationLinks' = up.links
        /\ IF threw
           THEN /\ alerts' = alerts + 1
                /\ UNCHANGED <<selOptions, selected>>
           ELSE /\ selOptions' = sel.options
                /\ selected' = sel.selected
                /\ UNCHANGED alerts
        /\ loading' = FALSE
        /\ inflight' = inflight \ {f}
        /\ lastResolved' = [id |-> f.id,
                            outcome |-> IF threw THEN "TypeError" ELSE "ok",
                            body |-> body]
        /\ UNCHANGED <<dom, served, nextId>>

\* JsonResolves with a request-sequence guard: the body of a call that is not
\* the newest one issued is dropped
JsonResolvesNewestOnly ==
    \E f \in inflight : \E body \in Bodies :
        /\ f.stage = "json"
        /\ IF f.id = nextId - 1
           THEN FetchSucceeds(f, body)
           ELSE /\ loading' = FALSE
                /\ inflight' = inflight \ {f}
                /\ lastResolved' = [id |-> f.id, outcome |-> "ok",
                                    body |-> body]
                /\ UNCHANGED <<dom, served, currentData, currentPage, totalPages,
                               tableRows, paginationInfo, paginationLinks,
                               selOptions, selected, nextId, alerts>>

JsonResolves ==
    \E f \in inflight : \E body \in Bodies :
        f.stage = "json" /\ FetchSucceeds(f, body)

-----------------------------------------------------------------------------
(* The server adapters.  The application they wrap is not among the         *)
(* sources: it may answer any event with any of AppResponses.               *)

Methods == {"GET", "POST", "OPTIONS"}

Paths == {"/api/precios", "/api/other", "/"}

AppHeaders ==
    { {},
      {<<"Content-Type", "application/json">>},
      {<<"Content-Type", "application/json">>,
       <<"Access-Control-Allow-Origin", "https://example.org">>},
      {<<"Access-Control-Allow-Origin", "*">>,
       <<"Access-Control-Allow-Methods", "GET, POST, OPTIONS">>,
       <<"Access-Control-Allow-Headers", "Content-Type">>} }

AppResponses ==
    {[status |-> st, headers |-> h] : st \in {200, 404, 500}, h \in AppHeaders}

\* res.setHeader(name, value)
SetHeader(headers, name, value) ==
    {h \in headers : h[1] # name} \cup {<<name, value>>}

\* the callback of api.js
CorsCallback(res) ==
    [res EXCEPT !.headers =
        SetHeader(
          SetHeader(
            SetHeader(@, "Access-Control-Allow-Origin", "*"),
            "Access-Control-Allow-Methods", "GET, POST, OPTIONS"),
          "Access-Control-Allow-Headers", "Content-Type")]

\* module.exports.handler of api.js: the application's response, with the
\* callback applied to it
ApiHandler ==
    \E m \in Methods : \E p \in Paths : \E res \in AppResponses :
        /\ served' = [adapter |-> "api.js", method |-> m, path |-> p,
                      response |-> CorsCallback(res)]
        /\ UNCHANGED <<dom, loading, currentData, currentPage, totalPages,
                       tableRows, paginationInfo, paginationLinks, selOptions,
                       selected, inflight, nextId, alerts, lastResolved>>

\* exports.handler at the end of script.js: what mangum(event, context)
\* returns, as it is
MangumHandler ==
    \E m \in Methods : \E p \in Paths : \E res \in AppResponses :
        /\ served' = [adapter |-> "mangum", method |-> m, path |-> p,
                      response |-> res]
        /\ UNCHANGED <<dom, loading, currentData, currentPage, totalPages,
                       tableRows, paginationInfo, paginationLinks, selOptions,
                       selected, inflight, nextId, alerts, lastResolved>>

NextServer ==
    \/ ApiHandler
    \/ MangumHandler

SpecServer == Init /\ [][NextServer]_vars

-----------------------------------------------------------------------------

Next ==
    \/ DepartamentoChange
    \/ ProvinciaChange
    \/ DistritoChange
    \/ TipoEstablecimientoChange
    \/ PageLinkClick
    \/ NetworkError
    \/ HttpError
    \/ ResponseOk
    \/ JsonResolves

Spec == Init /\ [][Next]_vars

SpecDom == InitDom /\ [][Next]_vars

\* every request sent is eventually answered or fails, and every body that
\* is being read is eventually parsed
SpecFair ==
    /\ Spec
    /\ WF_vars(NetworkError \/ HttpError \/ ResponseOk)
    /\ WF_vars(JsonResolves)

TypeOK ==
    /\ loading \in BOOLEAN
    /\ currentPage \in 1..9
    /\ totalPages \in 0..9
    /\ nextId \in 2..(MaxFetches + 1)
    /\ alerts \in 0..MaxFetches
    /\ Cardinality(inflight) <= MaxFetches

-----------------------------------------------------------------------------
(* Vocabulary of the properties *)

\* a fetchData call ran to its finally block in this step
Resolved == lastResolved' # lastResolved

\* a fetchData call ran its whole try block in this step
Succeeded == Resolved /\ lastResolved'.outcome = "ok"

\* a fetchData call went through its catch block in this step
Failed == Resolved /\ lastResolved'.outcome # "ok"

\* the user changed selector s in this step
UserChanged(s) == ~Resolved /\ selected'[s] # selected[s]

\* the page numbers of the numbered links of a control, in document order
NumberedPages(links) ==
    LET nums == SelectSeq(links, LAMBDA l : l.kind = "number")
    IN  [k \in 1..Len(nums) |-> nums[k].page]

\* the records with 0-based indices from..to of data
RecordsAt(data, from, to) == [k \in 1..(to - from + 1) |-> data[from + k]]

\* the number of pages with a record on them: the least n with 10 * n >= len
PagesOf(len) == CHOOSE n \in 0..len : 10 * n >= len /\ 10 * (n - 1) < len

LastIndexOn(p, len) == IF p * 10 < len THEN p * 10 - 1 ELSE len - 1

-----------------------------------------------------------------------------
(* C1: whenever at least one fetchData call has been issued and has not    *)
(* yet resolved, the loading overlay is visible.                           *)
C1_LoadingWhileInFlight == inflight # {} => loading

-----------------------------------------------------------------------------
(* C2: a fetch that resolves successfully always overwrites currentData    *)
(* with its own response and sets currentPage to 1, whatever its issue     *)
(* number is relative to the fetches that resolved before it: the last one *)
(* to resolve wins.                                                        *)
C2_LastToResolveWins ==
    [][Succeeded =>
          /\ currentData' = Json(lastResolved'.body)
          /\ currentPage' = 1]_vars

\* every fetch has resolved, and the one that resolved last was issued before
\* another one that had resolved earlier; its response is the one held
C2_OlderResolvedLast ==
    /\ inflight = {}
    /\ lastResolved.outcome = "ok"
    /\ lastResolved.id < nextId - 1
    /\ currentData = Json(lastResolved.body)
    /\ currentData # <<>>
    /\ currentPage = 1

-----------------------------------------------------------------------------
(* C3: a failed fetch (network error or non-success status) fires exactly  *)
(* one alert, hides the loading indicator and changes nothing else:        *)
(* currentData, currentPage, totalPages, the table rows, the pagination    *)
(* control and the selectors are as before.                                *)
C3_FailedFetchKeepsState ==
    [][Failed =>
          /\ alerts' = alerts + 1
          /\ loading' = FALSE
          /\ UNCHANGED <<currentData, currentPage, totalPages, tableRows,
                         paginationInfo, paginationLinks, selOptions,
                         selected>>]_vars

\* a fetch failed after a table had been rendered
C3_FailedAfterRender ==
    /\ lastResolved.outcome \in {"Error", "TypeError"}
    /\ lastResolved.id > 1
    /\ alerts = 1
    /\ ~loading
    /\ tableRows # <<>>

-----------------------------------------------------------------------------
(* C4: for the record set held, of any size N, totalPages = ceil(N/10),    *)
(* the table shows exactly the records at indices (p-1)*10 up to           *)
(* min(p*10, N)-1 of the current page p, the pages 1..totalPages together  *)
(* hold every record exactly once and in order, and the info text reports  *)
(* start (p-1)*10+1, end min(p*10, N) and total N.                         *)
C4_PaginationPartitions ==
    LET N == Len(currentData)
        p == currentPage
    IN  /\ totalPages = PagesOf(N)
        /\ \A i \in 1..N :
              \E q \in 1..totalPages :
                 /\ (q - 1) * 10 <= i - 1
                 /\ i - 1 <= LastIndexOn(q, N)
                 /\ \A r \in 1..totalPages :
                       ((r - 1) * 10 <= i - 1 /\ i - 1 <= LastIndexOn(r, N))
                          => r = q
        /\ N > 0 =>
              /\ tableRows = RecordsAt(currentData, (p - 1) * 10,
                                       LastIndexOn(p, N))
              /\ paginationInfo = [startItem |-> (p - 1) * 10 + 1,
                                   endItem |-> LastIndexOn(p, N) + 1,
                                   total |-> N]

\* the same, for a record set that is not empty
C4_PaginationPartitionsNonEmpty == currentData # <<>> => C4_PaginationPartitions

-----------------------------------------------------------------------------
(* C5: a change of the establishment-type selector leaves the in-flight    *)
(* fetches and the loading indicator as they are; a change of the          *)
(* department, province or district selector issues exactly one new fetch. *)
C5_OnlyRegionChangesFetch ==
    [][/\ UserChanged("tipoEstablecimiento") =>
             UNCHANGED <<inflight, loading, nextId>>
       /\ \A k \in 1..Len(RegionSelectors) :
             UserChanged(RegionSelectors[k]) =>
                /\ nextId' = nextId + 1
                /\ loading'
                /\ \E g \in inflight' :
                      /\ g.id = nextId
                      /\ g.stage = "fetch"
                      /\ g \notin inflight
                      /\ inflight' = inflight \cup {g}]_vars

\* the user has changed the department once, which issued fetch 2, and the
\* establishment type once, which issued none
C5_BothKindsChanged ==
    /\ selected["tipoEstablecimiento"] > 1
    /\ selected["departamento"] > 1
    /\ nextId = 3
    /\ \E g \in inflight : g.id = 2 /\ inflight = {g}

-----------------------------------------------------------------------------
(* C6: a pagination control rendered for the record set held has, among    *)
(* its numbered links, page 1 exactly once and page totalPages exactly     *)
(* once, and its numbered links are exactly the pages 1, totalPages and    *)
(* those within 2 of the current page, in ascending order.                 *)
C6_WindowHasFirstAndLast ==
    currentData # <<>> =>
       LET nums == NumberedPages(paginationLinks) IN
       /\ totalPages >= 1
       /\ Cardinality({k \in 1..Len(nums) : nums[k] = 1}) = 1
       /\ Cardinality({k \in 1..Len(nums) : nums[k] = totalPages}) = 1
       /\ {nums[k] : k \in 1..Len(nums)} =
             {i \in 1..totalPages :
                 \/ i \in {1, totalPages}
                 \/ (i - currentPage \in -2..2)}
       /\ \A k \in 1..(Len(nums) - 1) : nums[k] < nums[k + 1]

\* the control of page 5 of 9: pages 2 and 8 have no link
C6_MiddleOfNine ==
    /\ currentData # <<>>
    /\ totalPages = 9
    /\ currentPage = 5
    /\ NumberedPages(paginationLinks) = <<1, 3, 4, 5, 6, 7, 9>>

-----------------------------------------------------------------------------
(* C7: a click on a page link whose target is within [1, totalPages] makes *)
(* that page the current one and renders it; a click on a link with a      *)
(* target outside that range, or with none, leaves currentPage, the table  *)
(* and the pagination control unchanged; no click changes currentData.     *)
C7_PageClickInRangeOnly ==
    [][\A k \in 1..Len(paginationLinks) :
          PageClick(k) =>
             LET link == paginationLinks[k]
                 inRange == link.hasPage /\ link.page \in 1..totalPages
             IN  /\ currentData' = currentData
                 /\ inRange =>
                       /\ currentPage' = link.page
                       /\ tableRows' =
                             RecordsAt(currentData, (link.page - 1) * 10,
                                       LastIndexOn(link.page,
                                                   Len(currentData)))
                 /\ ~inRange =>
                       UNCHANGED <<currentPage, totalPages, tableRows,
                                   paginationInfo, paginationLinks>>]_vars

\* the last of several pages is shown: 'Siguiente' targets totalPages + 1
C7_OnLastPage ==
    /\ currentData # <<>>
    /\ totalPages >= 2
    /\ currentPage = totalPages
    /\ \E k \in 1..Len(paginationLinks) :
          /\ paginationLinks[k].kind = "Siguiente"
          /\ paginationLinks[k].page = totalPages + 1

-----------------------------------------------------------------------------
(* C8: an establishment-type change to a non-empty value t replaces        *)
(* currentData by its records whose TIPO_ESTABLECIMIENTO is t, in their    *)
(* order, sets currentPage to 1 and re-renders the table and the           *)
(* pagination control for the new record set; with the empty value the     *)
(* record set is left unchanged and the page is reset to 1.                *)

\* the records of data of type t, in their order
OfType(data, t) ==
    LET keep == {i \in 1..Len(data) : data[i].TIPO_ESTABLECIMIENTO = t}
        nth(k) == CHOOSE i \in keep : Cardinality({j \in keep : j < i}) = k - 1
    IN  [k \in 1..Cardinality(keep) |-> data[nth(k)]]

\* what the listener does to the record set, the page and the table
C8_Narrowed(i) ==
    LET t == selOptions["tipoEstablecimiento"][i]
        expected == IF t = "" THEN currentData ELSE OfType(currentData, t)
    IN  /\ currentData' = expected
        /\ currentPage' = 1
        /\ tableRows' = RecordsAt(expected, 0, LastIndexOn(1, Len(expected)))

\* the pagination control describes the new record set
C8_PaginationRendered ==
    /\ paginationInfo'.total = Len(currentData')
    /\ \A k \in 1..Len(paginationLinks') :
          paginationLinks'[k].kind = "number" =>
             (paginationLinks'[k].page - 1) * 10 < Len(currentData')

C8_TipoChangeNarrows ==
    [][\A i \in 1..Len(selOptions["tipoEstablecimiento"]) :
          TipoChange(i) => (C8_Narrowed(i) /\ C8_PaginationRendered)]_vars

\* the same, the pagination control being required to follow only when the
\* new record set is not empty
C8_TipoChangeNarrowsNonEmpty ==
    [][\A i \in 1..Len(selOptions["tipoEstablecimiento"]) :
          TipoChange(i) =>
             /\ C8_Narrowed(i)
             /\ currentData' # <<>> => C8_PaginationRendered]_vars

\* the 4 records of type FARMACIA of the 25-record set, on one page
C8_FourOfTwentyFive ==
    /\ lastResolved.body = "farm25"
    /\ ValueOf(selOptions["tipoEstablecimiento"],
               selected["tipoEstablecimiento"]) = "FARMACIA"
    /\ Len(currentData) = 4
    /\ tableRows = currentData
    /\ NumberedPages(paginationLinks) = <<1>>

-----------------------------------------------------------------------------
(* C9: the initial load issues a fetch with no query parameter; a region   *)
(* change issues a fetch whose query parameters are exactly those of       *)
(* departamento, provincia, distrito whose selector value is non-empty;    *)
(* and when a fetch succeeds currentPage is 1.                             *)

\* the query parameters expected for the values the selectors show
C9_Expected(opts, sel) ==
    {<<s, ValueOf(opts[s], sel[s])>> :
        s \in {r \in {"departamento", "provincia", "distrito"} :
                  ValueOf(opts[r], sel[r]) # ""}}

C9_RegionChangeFetches ==
    /\ [](\A g \in inflight : g.id = 1 => g.params = <<>>)
    /\ [][/\ nextId' # nextId =>
                \E g \in inflight' :
                   /\ g.id = nextId
                   /\ g \notin inflight
                   /\ {g.params[k] : k \in 1..Len(g.params)} =
                         C9_Expected(selOptions', selected')
                   /\ Len(g.params) =
                         Cardinality(C9_Expected(selOptions', selected'))
          /\ Succeeded => currentPage' = 1]_vars

\* fetch 2 has succeeded; fetch 3 is in flight with one parameter, the other
\* two selectors being on 'all'
C9_SecondRegionFetch ==
    /\ lastResolved.id = 2
    /\ lastResolved.outcome = "ok"
    /\ currentPage = 1
    /\ \E g \in inflight : g.id = 3 /\ Len(g.params) = 1

-----------------------------------------------------------------------------
(* C10: after every successful fetch each selector's option list is the    *)
(* 'all' option followed by exactly the distinct non-empty values of its   *)
(* field in the freshly loaded record set, in strictly ascending order.    *)
C10_OptionsSortedDistinct ==
    [][Succeeded =>
          \A s \in Selectors :
             LET o == selOptions'[s] IN
             /\ Len(o) >= 1
             /\ o[1] = ""
             /\ {o[k] : k \in 2..Len(o)} =
                   {currentData'[i][FieldOf(s)] : i \in 1..Len(currentData')}
                      \ {""}
             /\ \A k \in 2..(Len(o) - 1) : StrLess(o[k], o[k + 1])]_vars

\* the 25-record set lists LIMA before CUSCO and GRIFO before FARMACIA, with
\* repetitions and empty fields
C10_Repopulated ==
    /\ lastResolved.outcome = "ok"
    /\ lastResolved.body = "farm25"
    /\ selOptions["departamento"] = <<"", "CUSCO", "LIMA">>
    /\ selOptions["tipoEstablecimiento"] = <<"", "FARMACIA", "GRIFO">>
    /\ selOptions["provincia"] = <<"">>

-----------------------------------------------------------------------------
(* C11: when a successful fetch repopulates a selector, the selector's     *)
(* value afterwards is its previous value if that value is among the new   *)
(* options and the empty ('all') value otherwise; the value shown is       *)
(* always the empty value or one of the new options.                       *)
C11_SelectionPreserved ==
    [][Succeeded =>
          \A s \in Selectors :
             LET old == ValueOf(selOptions[s], selected[s])
                 new == ValueOf(selOptions'[s], selected'[s])
                 offered == {selOptions'[s][k] : k \in 1..Len(selOptions'[s])}
             IN  /\ old \in offered => new = old
                 /\ old \notin offered => new = ""
                 /\ new \in offered
                 /\ selected'[s] \in 0..Len(selOptions'[s])]_vars

\* after fetch 2 the department chosen before is no longer offered and no
\* option is selected, while the establishment type chosen before is kept
C11_OneKeptOneDropped ==
    /\ lastResolved.outcome = "ok"
    /\ lastResolved.id >= 2
    /\ selected["departamento"] = 0
    /\ ValueOf(selOptions["tipoEstablecimiento"],
               selected["tipoEstablecimiento"]) = "GRIFO"

-----------------------------------------------------------------------------
(* C12: in a document that lacks an expected element, a response that      *)
(* parses fires no alert and still repopulates every selector that exists  *)
(* and renders the pagination links if their container exists and there    *)
(* are records; and a change of a region selector still issues its fetch.  *)
C12_AbsenceTolerated ==
    [][/\ (\E f \in inflight : f.stage = "json" /\ f \notin inflight') =>
             /\ alerts' = alerts
             /\ \A s \in Selectors \cap dom :
                   {selOptions'[s][k] : k \in 1..Len(selOptions'[s])} =
                      {""} \cup {currentData'[i][FieldOf(s)] :
                                    i \in 1..Len(currentData')}
             /\ ("pagination" \in dom /\ currentData' # <<>>) =>
                   NumberedPages(paginationLinks') # <<>>
       /\ \A k \in 1..Len(RegionSelectors) :
             UserChanged(RegionSelectors[k]) => nextId' = nextId + 1]_vars

-----------------------------------------------------------------------------
(* C13: provided every issued request eventually resolves, a visible       *)
(* loading indicator is eventually hidden; the indicator is hidden         *)
(* whenever no fetch is in flight; and after a failed fetch every option   *)
(* of every selector other than the one shown can still be chosen, which   *)
(* runs the selector's change listener.                                    *)

\* the last fetch to resolve failed
C13_AfterFailure == lastResolved.outcome \in {"Error", "TypeError"}

C13_RetryEnabled ==
    C13_AfterFailure =>
       /\ \A i \in 1..Len(selOptions["tipoEstablecimiento"]) :
             i # selected["tipoEstablecimiento"] => ENABLED TipoChange(i)
       /\ nextId <= MaxFetches =>
             \A k \in 1..Len(RegionSelectors) :
                \A i \in 1..Len(selOptions[RegionSelectors[k]]) :
                   i # selected[RegionSelectors[k]] =>
                      ENABLED RegionChange(RegionSelectors[k], i)

C13_ReturnsToIdle ==
    /\ [](inflight = {} => ~loading)
    /\ [](C13_RetryEnabled)
    /\ (loading ~> ~loading)

\* a fetch issued by a region change has failed, nothing is in flight, the
\* indicator is hidden and the department can be changed again
C13_IdleAfterFailure ==
    /\ C13_AfterFailure
    /\ lastResolved.id >= 2
    /\ inflight = {}
    /\ ~loading
    /\ nextId <= MaxFetches
    /\ Len(selOptions["departamento"]) > 1

-----------------------------------------------------------------------------
(* C14: every response returned by either server adapter carries the three *)
(* CORS headers Access-Control-Allow-Origin: *, Access-Control-Allow-      *)
(* Methods: GET, POST, OPTIONS and Access-Control-Allow-Headers:           *)
(* Content-Type.                                                           *)
C14_CorsOnEveryResponse ==
    served.adapter # "none" =>
       /\ <<"Access-Control-Allow-Origin", "*">> \in served.response.headers
       /\ <<"Access-Control-Allow-Methods", "GET, POST, OPTIONS">>
             \in served.response.headers
       /\ <<"Access-Control-Allow-Headers", "Content-Type">>
             \in served.response.headers

\* the same, for the adapter of api.js alone
C14_CorsFromApiJs == served.adapter = "api.js" => C14_CorsOnEveryResponse

-----------------------------------------------------------------------------
(* C15: in a pagination control rendered for the record set held, every    *)
(* ellipsis stands between two numbered links whose pages are not          *)
(* consecutive, two numbered links that follow each other have consecutive *)
(* pages, so that every run of pages without a link has exactly one        *)
(* ellipsis and no ellipsis stands where no page is hidden; an ellipsis    *)
(* has no page target, and a click on it leaves currentPage unchanged.     *)
C15_EllipsisShape ==
    currentData # <<>> =>
       LET L == paginationLinks IN
       /\ currentPage \in 1..totalPages
       /\ \A k \in 1..Len(L) :
             L[k].kind = "..." =>
                /\ ~L[k].hasPage
                /\ k > 1 /\ k < Len(L)
                /\ L[k - 1].kind = "number"
                /\ L[k + 1].kind = "number"
                /\ L[k + 1].page > L[k - 1].page + 1
       /\ \A k \in 1..(Len(L) - 1) :
             (L[k].kind = "number" /\ L[k + 1].kind = "number") =>
                L[k + 1].page = L[k].page + 1

C15_OneEllipsisPerGap ==
    /\ [](C15_EllipsisShape)
    /\ [][\A k \in 1..Len(paginationLinks) :
             (paginationLinks[k].kind = "..." /\ PageClick(k)) =>
                UNCHANGED <<currentPage, tableRows, paginationLinks>>]_vars

\* page 5 of 9: an ellipsis for page 2 and one for page 8
C15_TwoEllipses ==
    /\ currentData # <<>>
    /\ totalPages = 9
    /\ currentPage = 5
    /\ [k \in 1..Len(paginationLinks) |-> paginationLinks[k].kind] =
          <<"Anterior", "number", "...", "number", "number", "number",
            "number", "number", "...", "number", "Siguiente">>

-----------------------------------------------------------------------------
(* C16: currentPage is always within [1, max(1, ceil(|currentData|/10))]:  *)
(* the page rendered is never past the end of the record set held.         *)
C16_PageWithinData ==
    /\ currentPage >= 1
    /\ currentPage <= Max(1, PagesOf(Len(currentData)))

-----------------------------------------------------------------------------
(* C17: after every successful fetch and every establishment-type change,  *)
(* the pagination control describes the record set then held, empty or     *)
(* not: the info text reports its size, totalPages is its number of pages  *)
(* and no numbered link leads past its last page.                          *)
C17_ControlFollowsData ==
    [][(Succeeded \/ UserChanged("tipoEstablecimiento")) =>
          LET pages == PagesOf(Len(currentData'))
              nums == NumberedPages(paginationLinks')
          IN  /\ paginationInfo'.total = Len(currentData')
              /\ totalPages' = pages
              /\ \A k \in 1..Len(nums) : nums[k] <= pages]_vars

-----------------------------------------------------------------------------
(* C18: whenever no fetch is in flight and the establishment-type selector *)
(* shows a non-empty value t, every record held in currentData is of       *)
(* type t.                                                                 *)
C18_DataMatchesTipo ==
    LET t == ValueOf(selOptions["tipoEstablecimiento"],
                     selected["tipoEstablecimiento"])
    IN  (inflight = {} /\ t # "") =>
           \A i \in 1..Len(currentData) :
              currentData[i].TIPO_ESTABLECIMIENTO = t

-----------------------------------------------------------------------------
(* C19: currentData is replaced by a whole response only when a fetch      *)
(* succeeds; every other step leaves it an order-preserving subsequence of *)
(* what it was, its records unchanged, so that records narrowed away are   *)
(* not brought back by a later establishment-type change; hence it is a    *)
(* subsequence of the response of the last successful fetch whenever that  *)
(* fetch is the last one resolved, and empty before any fetch resolves.    *)

\* a is b with some of its elements left out, for a sequence b without
\* repetition: every element of a is in b, after the one before it
IsSubsequence(a, b) ==
    /\ Cardinality({b[j] : j \in 1..Len(b)}) = Len(b)
    /\ \A k \in 1..Len(a) :
          \E j \in 1..Len(b) :
             /\ b[j] = a[k]
             /\ k > 1 => \E j0 \in 1..(j - 1) : b[j0] = a[k - 1]

C19_OnlyNarrowed ==
    /\ [](lastResolved.outcome = "none" => currentData = <<>>)
    /\ [](lastResolved.outcome = "ok" =>
             IsSubsequence(currentData, Json(lastResolved.body)))
    /\ [][/\ Succeeded => currentData' = Json(lastResolved'.body)
          /\ ~Succeeded =>
                \/ currentData' = currentData
                \/ /\ UserChanged("tipoEstablecimiento")
                   /\ Len(currentData') < Len(currentData)
                   /\ IsSubsequence(currentData', currentData)]_vars

\* the 25-record set narrowed to its 4 FARMACIA records, the selector then
\* set back to 'Todos': the other 21 records have not come back
C19_NotRestoredByAll ==
    /\ lastResolved.outcome = "ok"
    /\ lastResolved.body = "farm25"
    /\ selected["tipoEstablecimiento"] = 1
    /\ Len(currentData) = 4
    /\ \A i \in 1..4 : currentData[i].TIPO_ESTABLECIMIENTO = "FARMACIA"

====
